---- MODULE Spec2Model ----
(***************************************************************************)
(* Fraud Detection REST API (src/app.py): the process-wide model handle,   *)
(* the request schema, the feature deriver and the /predict,               *)
(* /predict/batch, /health and /metrics handlers.                          *)
(*                                                                         *)
(* Units.  Money fields are integers in cents, risk_score is an integer in *)
(* hundredths, counts and days are plain integers.  A DataFrame cell is an *)
(* exact rational <<numerator, denominator>> in lowest terms.  A           *)
(* probability is a binary floating-point number with MantBits significant *)
(* bits, written as its numerator over 2^FracBits; the arithmetic on it    *)
(* rounds to nearest, ties to even, as IEEE-754 does.                      *)
(***************************************************************************)
EXTENDS Integers, Sequences, FiniteSets, TLC

----------------------------------------------------------------------------
(* Bounds of the model *)

\* significant bits of a floating-point probability (53 in a Python float)
MantBits == 3
\* a probability is numerator / 2^FracBits
FracBits == 6
\* largest value numpy's float32 holds, in currency units (scaled down)
Float32Max == 10000
\* largest int Python converts to float (scaled down)
Float64Max == 1000000
\* batch sizes 0..SmallBatch are enumerated next to the sizes around the limit
SmallBatch == 3
\* clients whose requests are in flight at the same time
NClients == 2
\* wrapped calls made in one behaviour
MaxCalls == 3

(* Program constants *)

\* Field(..., max_items=100) and len(...) > 100
MaxItems == 100
\* track_metrics keeps the last 1000 response times
MaxSamples == 1000

----------------------------------------------------------------------------
(* Floating-point probabilities *)

One == 2^FracBits
Half == 2^(FracBits - 1)

RECURSIVE Log2Floor(_)
Log2Floor(x) == IF x < 2 THEN 0 ELSE 1 + Log2Floor(x \div 2)

\* round a non-negative numerator to MantBits significant bits, ties to even
RoundToFloat(x) ==
    IF x < 2^MantBits THEN x
    ELSE LET u == 2^(Log2Floor(x) - (MantBits - 1))
             q == x \div u
             r == x % u
             up == (2 * r > u) \/ (2 * r = u /\ q % 2 = 1)
         IN  (IF up THEN q + 1 ELSE q) * u

IsFloat(x) == x >= 0 /\ RoundToFloat(x) = x

Floats == {x \in 0..One : IsFloat(x)}

\* a - b on floats: the exact difference, rounded
FloatSub(a, b) ==
    LET d == a - b IN IF d < 0 THEN 0 - RoundToFloat(0 - d) ELSE RoundToFloat(d)

FloatAbs(x) == IF x < 0 THEN 0 - x ELSE x

\* x * k on a non-negative float and a small integer k: the exact product, rounded
FloatMul(x, k) == RoundToFloat(x * k)

RECURSIVE SortedSeq(_)
SortedSeq(S) ==
    IF S = {} THEN <<>>
    ELSE LET m == CHOOSE x \in S : \A y \in S : x <= y
         IN  <<m>> \o SortedSeq(S \ {m})

FloatSeq == SortedSeq(Floats)

----------------------------------------------------------------------------
(* Exact rationals for DataFrame cells *)

RECURSIVE GCD(_, _)
GCD(a, b) == IF b = 0 THEN a ELSE GCD(b, a % b)

Rat(n, d) == LET g == GCD(n, d) IN <<n \div g, d \div g>>

Abs(x) == IF x < 0 THEN 0 - x ELSE x

----------------------------------------------------------------------------
(* The request schema: class TransactionRequest *)

TransactionFields ==
    {"transaction_amount", "account_balance", "transaction_type", "device_type",
     "location", "merchant_category", "ip_address_flag",
     "previous_fraudulent_activity", "daily_transaction_count",
     "avg_transaction_amount_7d", "failed_transaction_count_7d", "card_type",
     "card_age", "transaction_distance", "authentication_method", "risk_score",
     "is_weekend"}

allowed_types == {"ATM Withdrawal", "POS", "Online", "Transfer", "Payment"}
allowed_devices == {"Mobile", "Laptop", "Tablet", "Desktop"}
allowed_methods == {"Biometric", "Password", "PIN", "OTP"}
allowed_cards == {"Visa", "Mastercard", "Discover", "Amex"}

\* the Field(...) constraint and the @validator of one field
\* variant: daily_transaction_count declared with gt=0
FieldOk_CountPositive(f, v) ==
    CASE f = "transaction_amount" -> v > 0
      [] f = "daily_transaction_count" -> v > 0
      [] f = "risk_score" -> v >= 0 /\ v <= 100
      [] f = "transaction_type" -> v \in allowed_types
      [] f = "device_type" -> v \in allowed_devices
      [] f = "card_type" -> v \in allowed_cards
      [] f = "authentication_method" -> v \in allowed_methods
      [] f \in {"location", "merchant_category"} -> TRUE
      [] f \in {"ip_address_flag", "is_weekend"} -> v >= 0 /\ v <= 1
      [] OTHER -> v >= 0

\* variant: risk_score declared with ge=0 only, its le=1 forgotten
FieldOk_RiskUnbounded(f, v) ==
    CASE f = "transaction_amount" -> v > 0
      [] f = "transaction_type" -> v \in allowed_types
      [] f = "device_type" -> v \in allowed_devices
      [] f = "card_type" -> v \in allowed_cards
      [] f = "authentication_method" -> v \in allowed_methods
      [] f \in {"location", "merchant_category"} -> TRUE
      [] f \in {"ip_address_flag", "is_weekend"} -> v >= 0 /\ v <= 1
      [] OTHER -> v >= 0

FieldOk(f, v) ==
    CASE f = "transaction_amount" -> v > 0
      [] f = "account_balance" -> v >= 0
      [] f = "transaction_type" -> v \in allowed_types
      [] f = "device_type" -> v \in allowed_devices
      [] f = "location" -> TRUE
      [] f = "merchant_category" -> TRUE
      [] f = "ip_address_flag" -> v >= 0 /\ v <= 1
      [] f = "previous_fraudulent_activity" -> v >= 0
      [] f = "daily_transaction_count" -> v >= 0
      [] f = "avg_transaction_amount_7d" -> v >= 0
      [] f = "failed_transaction_count_7d" -> v >= 0
      [] f = "card_type" -> v \in allowed_cards
      [] f = "card_age" -> v >= 0
      [] f = "transaction_distance" -> v >= 0
      [] f = "authentication_method" -> v \in allowed_methods
      [] f = "risk_score" -> v >= 0 /\ v <= 100
      [] f = "is_weekend" -> v >= 0 /\ v <= 1

\* a JSON object: the keys it has, and their values
\* the fields pydantic reports: missing (Field(...) is required) or out of domain
ValidationErrors(obj) ==
    {f \in TransactionFields : f \notin obj.has \/ ~FieldOk(f, obj.val[f])}

TransactionRequest(obj) == ValidationErrors(obj) = {}

\* the TransactionRequest built from a valid object: the declared fields;
\* keys the class does not declare are ignored (pydantic's default)
model_validate(obj) == [f \in TransactionFields |-> obj.val[f]]

\* variant: the list is limited to fewer than 100 items
BatchPredictionRequest_Below(objs) ==
    /\ Len(objs) < MaxItems
    /\ \A i \in 1..Len(objs) : TransactionRequest(objs[i])

\* variant: transactions declared without max_items
BatchPredictionRequest_Unbounded(objs) ==
    \A i \in 1..Len(objs) : TransactionRequest(objs[i])

\* variant: transactions declared as a list of untyped objects
BatchPredictionRequest_Untyped(objs) == Len(objs) <= MaxItems

\* class BatchPredictionRequest: every item a TransactionRequest, max_items
BatchPredictionRequest(objs) ==
    /\ Len(objs) <= MaxItems
    /\ \A i \in 1..Len(objs) : TransactionRequest(objs[i])

----------------------------------------------------------------------------
(* The model artifact: the classifier joblib.load returns.  It is a black  *)
(* box; the handle holds one of a small family of deterministic            *)
(* classifiers, each with the input checks scikit-learn estimators make.   *)

\* the keys of the data dict of preprocess_transaction, in its order
DerivedColumns ==
    <<"Failed_Transaction_Count_7d", "Risk_Score", "High_Failure_Flag",
      "Transaction_Amount", "Avg_Transaction_Amount_7d",
      "Risk_Amount_Interaction", "Amount_Deviation", "Failure_Rate", "Hour",
      "Card_Age", "Month">>

\* the default feature names of lifespan
DefaultFeatureNames ==
    <<"Transaction_Amount", "Account_Balance", "Previous_Fraudulent_Activity",
      "Daily_Transaction_Count", "Avg_Transaction_Amount_7d",
      "Failed_Transaction_Count_7d", "Card_Age", "Transaction_Distance",
      "Risk_Score", "Is_Weekend", "Transaction_Type", "Device_Type",
      "Location", "Merchant_Category", "IP_Address_Flag", "Card_Type",
      "Authentication_Method">>

\* a column order an artifact may have been fit with: the derived columns,
\* in another order
FitOrder ==
    <<"Transaction_Amount", "Avg_Transaction_Amount_7d", "Amount_Deviation",
      "Risk_Score", "Risk_Amount_Interaction", "Failed_Transaction_Count_7d",
      "High_Failure_Flag", "Failure_Rate", "Card_Age", "Hour", "Month">>

None == [type |-> "NoneType"]

\* fit on a DataFrame of the derived columns; trees take float32 input
RandomForest ==
    [type |-> "RandomForestClassifier", has_feature_names_in |-> TRUE,
     feature_names_in |-> FitOrder, n_features_in |-> 11, float32 |-> TRUE,
     argmax |-> TRUE, threshold |-> 0, salt |-> 1]

\* fit on a DataFrame that also had a column the deriver does not build
GradientBoosting ==
    [type |-> "GradientBoostingClassifier", has_feature_names_in |-> TRUE,
     feature_names_in |-> <<"Account_Balance">> \o FitOrder,
     n_features_in |-> 12, float32 |-> TRUE, argmax |-> TRUE, threshold |-> 0,
     salt |-> 5]

\* fit on a bare array of the eleven derived columns: no feature names
LogisticRegression ==
    [type |-> "LogisticRegression", has_feature_names_in |-> FALSE,
     feature_names_in |-> <<>>, n_features_in |-> 11, float32 |-> FALSE,
     argmax |-> TRUE, threshold |-> 0, salt |-> 2]

\* fit on a bare array of the seventeen raw columns; its predict is not the
\* argmax of its predict_proba (as scikit-learn documents for SVC)
SVC ==
    [type |-> "SVC", has_feature_names_in |-> FALSE, feature_names_in |-> <<>>,
     n_features_in |-> 17, float32 |-> FALSE, argmax |-> FALSE,
     threshold |-> Half \div 2, salt |-> 3]

Artifacts == {RandomForest, GradientBoosting, LogisticRegression, SVC}

\* a DataFrame of one row is [cols, val]: its column names in order, and the
\* cell of each column
Cell(df, i) == df.val[df.cols[i]]

RECURSIVE Mix(_, _)
Mix(df, i) ==
    IF i > Len(df.cols) THEN 0
    ELSE i * (Cell(df, i)[1] + 3 * Cell(df, i)[2]) + Mix(df, i + 1)

\* the input validation an estimator runs before it predicts: "" when the
\* input passes, else the message of the ValueError it raises
InputError(m, df) ==
    IF m.float32 /\ \E i \in 1..Len(df.cols) :
                       Cell(df, i)[1] > Float32Max * Cell(df, i)[2]
    THEN "Input X contains infinity or a value too large for dtype('float32')."
    ELSE IF Len(df.cols) # m.n_features_in
    THEN "X has a different number of features than the estimator is expecting."
    ELSE ""

\* the row m.predict_proba(df)[0]: <<P(class 0), P(class 1)>>
Complement(p1) == <<RoundToFloat(One - p1), p1>>

ProbaRow(m, df) ==
    Complement(FloatSeq[((Mix(df, 1) * m.salt) % Len(FloatSeq)) + 1])

\* model.predict_proba(df): [raised, message] or [raised, value]
Outcome(error, value) ==
    IF error # "" THEN [raised |-> TRUE, message |-> error]
    ELSE [raised |-> FALSE, value |-> value]

predict_proba(m, df) == Outcome(InputError(m, df), ProbaRow(m, df))

\* the class label m.predict(df)[0]
ClassOf(m, row) ==
    IF m.argmax THEN (IF row[2] > row[1] THEN 1 ELSE 0)
    ELSE (IF row[2] >= m.threshold THEN 1 ELSE 0)

PredictedClass(m, df) == ClassOf(m, ProbaRow(m, df))

\* model.predict(df)
predict(m, df) == Outcome(InputError(m, df), PredictedClass(m, df))

----------------------------------------------------------------------------
(* The feature deriver: preprocess_transaction *)

Range(seq) == {seq[i] : i \in 1..Len(seq)}

\* missing_features = [f for f in feature_names if f not in df.columns]
missing_features(names, df) ==
    SelectSeq(names, LAMBDA f : f \notin DOMAIN df.val)

\* df[feat] = 0.0 for each missing feature: a new column at the end
AddDefaults(df, miss) ==
    [cols |-> df.cols \o miss,
     val |-> [f \in DOMAIN df.val \cup Range(miss) |->
                 IF f \in DOMAIN df.val THEN df.val[f] ELSE <<0, 1>>]]

\* df = df[feature_names]
Reorder(df, names) ==
    [cols |-> names, val |-> [f \in Range(names) |-> df.val[f]]]

\* variant: amount_deviation without abs()
Derived_Signed(t, clock) ==
    LET failed_count == t.failed_transaction_count_7d
        daily_count == t.daily_transaction_count
    IN  [cols |-> DerivedColumns,
         val |-> [Failed_Transaction_Count_7d |-> Rat(failed_count, 1),
                  Risk_Score |-> Rat(t.risk_score, 100),
                  High_Failure_Flag |->
                      Rat(IF failed_count > 0 THEN 1 ELSE 0, 1),
                  Transaction_Amount |-> Rat(t.transaction_amount, 100),
                  Avg_Transaction_Amount_7d |->
                      Rat(t.avg_transaction_amount_7d, 100),
                  Risk_Amount_Interaction |->
                      Rat(t.risk_score * t.transaction_amount, 10000),
                  Amount_Deviation |->
                      <<t.transaction_amount - t.avg_transaction_amount_7d,
                        100>>,
                  Failure_Rate |->
                      IF daily_count > 0 THEN Rat(failed_count, daily_count)
                      ELSE <<0, 1>>,
                  Hour |-> Rat(clock.hour, 1),
                  Card_Age |-> Rat(t.card_age, 1),
                  Month |-> Rat(clock.month, 1)]]

\* variant: the deviation is taken from the account balance
Derived_BalanceDeviation(t, clock) ==
    LET failed_count == t.failed_transaction_count_7d
        daily_count == t.daily_transaction_count
    IN  [cols |-> DerivedColumns,
         val |-> [Failed_Transaction_Count_7d |-> Rat(failed_count, 1),
                  Risk_Score |-> Rat(t.risk_score, 100),
                  High_Failure_Flag |->
                      Rat(IF failed_count > 0 THEN 1 ELSE 0, 1),
                  Transaction_Amount |-> Rat(t.transaction_amount, 100),
                  Avg_Transaction_Amount_7d |->
                      Rat(t.avg_transaction_amount_7d, 100),
                  Risk_Amount_Interaction |->
                      Rat(t.risk_score * t.transaction_amount, 10000),
                  Amount_Deviation |->
                      Rat(Abs(t.transaction_amount - t.account_balance), 100),
                  Failure_Rate |->
                      IF daily_count > 0 THEN Rat(failed_count, daily_count)
                      ELSE <<0, 1>>,
                  Hour |-> Rat(clock.hour, 1),
                  Card_Age |-> Rat(t.card_age, 1),
                  Month |-> Rat(clock.month, 1)]]

\* data = {...}; df = pd.DataFrame(data)
Derived(t, clock) ==
    LET failed_count == t.failed_transaction_count_7d
        daily_count == t.daily_transaction_count
        high_failure_flag == IF failed_count > 0 THEN 1 ELSE 0
        failure_rate == IF daily_count > 0 THEN Rat(failed_count, daily_count)
                        ELSE <<0, 1>>
        amount_deviation ==
            Abs(t.transaction_amount - t.avg_transaction_amount_7d)
        risk_amount_interaction == t.risk_score * t.transaction_amount
    IN  [cols |-> DerivedColumns,
         val |-> [Failed_Transaction_Count_7d |-> Rat(failed_count, 1),
                  Risk_Score |-> Rat(t.risk_score, 100),
                  High_Failure_Flag |-> Rat(high_failure_flag, 1),
                  Transaction_Amount |-> Rat(t.transaction_amount, 100),
                  Avg_Transaction_Amount_7d |->
                      Rat(t.avg_transaction_amount_7d, 100),
                  Risk_Amount_Interaction |->
                      Rat(risk_amount_interaction, 10000),
                  Amount_Deviation |-> Rat(amount_deviation, 100),
                  Failure_Rate |-> failure_rate,
                  Hour |-> Rat(clock.hour, 1),
                  Card_Age |-> Rat(t.card_age, 1),
                  Month |-> Rat(clock.month, 1)]]

\* variant: the missing columns are added but the frame is not reordered
Aligned_Unordered(df, names, miss) ==
    [raised |-> FALSE, warned |-> miss # <<>>, df |-> AddDefaults(df, miss)]

\* the cells added and the order imposed when feature_names is not empty
Aligned(df, names, miss) ==
    [raised |-> FALSE, warned |-> miss # <<>>,
     df |-> Reorder(AddDefaults(df, miss), names)]

\* preprocess_transaction(transaction) with feature_names = names, read at
\* wall-clock time clock: the DataFrame and whether the missing-features
\* warning was logged, or the exception raised.  failed_count / daily_count
\* divides a float by an int: Python raises OverflowError when the int is
\* too large to convert to float.
preprocess_transaction(t, names, clock) ==
    IF t.daily_transaction_count > Float64Max
    THEN [raised |-> TRUE, message |-> "int too large to convert to float"]
    ELSE IF names # <<>>
    THEN Aligned(Derived(t, clock), names,
                 missing_features(names, Derived(t, clock)))
    ELSE [raised |-> FALSE, warned |-> FALSE, df |-> Derived(t, clock)]

----------------------------------------------------------------------------
(* State *)

VARIABLES
    model,          \* the global model: None or the loaded artifact
    feature_names,  \* the global feature_names
    lifespan_pc,    \* where the lifespan context manager is
    now,            \* the wall clock: [hour, month]
    req,            \* the request being served, NoRequest between requests
    resp,           \* the response to it: [status, body]
    trace,          \* what serving it did: the handle it found, whether the
                    \* handler body ran, the clock reading of every
                    \* preprocess_transaction call, every model call
    inflight,       \* the requests of concurrent clients: for each client
                    \* the stage its request is at, the request, and once
                    \* handled the response, the trace and the clock reading
    metrics,        \* monitoring_config.metrics
    wrapper,        \* the calls of wrapped functions: for each caller
                    \* whether its call is at the await, what the function
                    \* did and what the caller got
    summary,        \* what get_metrics_summary() has just returned, None
                    \* when the last step was not a call of it
    observed        \* history: the wrapped calls made and how they ended,
                    \* whether two were in flight together, whether
                    \* reset_metrics ran, and every sample appended since
                    \* the metrics dict was created, in completion order

\* the state of monitoring_config, and of the application
monitoring == <<metrics, wrapper, summary, observed>>
application ==
    <<model, feature_names, lifespan_pc, now, req, resp, trace, inflight>>

vars ==
    <<model, feature_names, lifespan_pc, now, req, resp, trace, inflight,
      metrics, wrapper, summary, observed>>

----------------------------------------------------------------------------
(* Responses *)

\* raise HTTPException(status_code, detail), as http_exception_handler
\* renders it
http_exception_handler(status_code, detail, clock) ==
    [status |-> status_code,
     body |-> [error |-> detail, status_code |-> status_code,
               timestamp |-> clock]]

\* FastAPI's answer to a body that fails the request schema
RequestValidationError(errors) ==
    [status |-> 422, body |-> [detail |-> errors]]

\* PredictionResponse(...)
PredictionResponse(fraud_probability, is_fraud, confidence, response_time, clock) ==
    [fraud_probability |-> fraud_probability, is_fraud |-> is_fraud,
     confidence |-> confidence, response_time_ms |-> response_time,
     timestamp |-> clock]

\* variant: the confidence is the probability of the likelier class
Confidence_Likelier(fraud_probability) ==
    IF fraud_probability >= Half THEN fraud_probability
    ELSE FloatSub(One, fraud_probability)

\* abs(fraud_probability - 0.5) * 2
Confidence(fraud_probability) ==
    FloatMul(FloatAbs(FloatSub(fraud_probability, Half)), 2)

NoTrace(m, names) ==
    [model |-> m, feature_names |-> names, entered |-> FALSE,
     derived |-> <<>>, calls |-> <<>>]

----------------------------------------------------------------------------
(* One record through the pipeline: the body of the try block of           *)
(* predict_fraud and of the loop of predict_fraud_batch, statement by      *)
(* statement.  The result is the fields computed or the exception raised,  *)
(* and the model calls made.                                               *)

\* variant: is_fraud decided by comparing the probability with 0.5
ScoreClass_Threshold(df, proba, pred, calls) ==
    IF pred.raised
    THEN [raised |-> TRUE, message |-> pred.message, calls |-> calls]
    ELSE [raised |-> FALSE, fraud_probability |-> proba.value[2],
          is_fraud |-> (proba.value[2] > Half),
          confidence |-> Confidence(proba.value[2]), calls |-> calls]

\* is_fraud = model.predict(df)[0] == 1; confidence = ...
ScoreClass(df, proba, pred, calls) ==
    IF pred.raised
    THEN [raised |-> TRUE, message |-> pred.message, calls |-> calls]
    ELSE [raised |-> FALSE, fraud_probability |-> proba.value[2],
          is_fraud |-> (pred.value = 1),
          confidence |-> Confidence(proba.value[2]), calls |-> calls]

\* is_fraud = model.predict(df)[0] == 1
ScorePredict(m, df, proba, pred, call) ==
    ScoreClass(df, proba, pred,
               <<call, [op |-> "predict", df |-> df, out |-> pred]>>)

\* fraud_probability = model.predict_proba(df)[0][1]
ScoreProba(m, df, proba) ==
    IF proba.raised
    THEN [raised |-> TRUE, message |-> proba.message,
          calls |-> <<[op |-> "predict_proba", df |-> df, out |-> proba]>>]
    ELSE ScorePredict(m, df, proba, predict(m, df),
                      [op |-> "predict_proba", df |-> df, out |-> proba])

\* df = preprocess_transaction(transaction)
ScoreDerived(m, pre) ==
    IF pre.raised
    THEN [raised |-> TRUE, message |-> pre.message, calls |-> <<>>]
    ELSE ScoreProba(m, pre.df, predict_proba(m, pre.df))

Score(m, names, t, clock) ==
    ScoreDerived(m, preprocess_transaction(t, names, clock))

----------------------------------------------------------------------------
(* POST /predict *)

\* variant: the except clause catches ValueError only, so the
\* OverflowError of the derivation reaches general_exception_handler
PredictOutcome_ValueErrorOnly(s, m, names, clock, elapsed) ==
    [resp |-> IF s.raised /\ s.calls = <<>>
              THEN [status |-> 500,
                    body |-> [error |-> <<"Internal server error">>,
                              detail |-> s.message, timestamp |-> clock]]
              ELSE IF s.raised
              THEN http_exception_handler(
                       500, <<"Prediction failed: ", s.message>>, clock)
              ELSE [status |-> 200,
                    body |-> PredictionResponse(
                                 s.fraud_probability, s.is_fraud,
                                 s.confidence, elapsed, clock)],
     trace |-> [model |-> m, feature_names |-> names, entered |-> TRUE,
                derived |-> <<clock>>, calls |-> <<s.calls>>]]

\* the return and the except clause of predict_fraud, s the outcome of the
\* try block
PredictOutcome(s, m, names, clock, elapsed) ==
    [resp |-> IF s.raised
              THEN http_exception_handler(
                       500, <<"Prediction failed: ", s.message>>, clock)
              ELSE [status |-> 200,
                    body |-> PredictionResponse(
                                 s.fraud_probability, s.is_fraud,
                                 s.confidence, elapsed, clock)],
     trace |-> [model |-> m, feature_names |-> names, entered |-> TRUE,
                derived |-> <<clock>>, calls |-> <<s.calls>>]]

\* the handler body, for a body that passed the schema
predict_fraud(t, m, names, clock, elapsed) ==
    IF m = None
    THEN [resp |-> http_exception_handler(503, <<"Model not loaded">>, clock),
          trace |-> [NoTrace(m, names) EXCEPT !.entered = TRUE]]
    ELSE PredictOutcome(Score(m, names, t, clock), m, names, clock, elapsed)

\* variant: the route looks at the handle before it validates the body
PostPredict_HandleFirst(body, m, names, clock, elapsed) ==
    IF m = None
    THEN [resp |-> http_exception_handler(503, <<"Model not loaded">>, clock),
          trace |-> NoTrace(m, names)]
    ELSE IF ~body.wellformed
    THEN [resp |-> RequestValidationError({"body"}),
          trace |-> NoTrace(m, names)]
    ELSE IF ~TransactionRequest(body.json)
    THEN [resp |-> RequestValidationError(ValidationErrors(body.json)),
          trace |-> NoTrace(m, names)]
    ELSE predict_fraud(model_validate(body.json), m, names, clock, elapsed)

\* the route: FastAPI parses and validates the body, then calls the handler
PostPredict(body, m, names, clock, elapsed) ==
    IF ~body.wellformed
    THEN [resp |-> RequestValidationError({"body"}),
          trace |-> NoTrace(m, names)]
    ELSE IF ~TransactionRequest(body.json)
    THEN [resp |-> RequestValidationError(ValidationErrors(body.json)),
          trace |-> NoTrace(m, names)]
    ELSE predict_fraud(model_validate(body.json), m, names, clock, elapsed)

----------------------------------------------------------------------------
(* POST /predict/batch *)

\* the wall clock read while record i is processed: the clock advances
\* from c1 to c2 after `roll` records
ClockAt(i, c1, c2, roll) == IF i <= roll THEN c1 ELSE c2

\* the outcome of the loop body for every record, were the loop to reach it
Scores(ts, m, names, c1, c2, roll) ==
    [i \in 1..Len(ts) |-> Score(m, names, ts[i], ClockAt(i, c1, c2, roll))]

\* the record at which an exception leaves the for loop, Len + 1 when the
\* loop runs to its end
LoopExit(scores) ==
    IF \E i \in 1..Len(scores) : scores[i].raised
    THEN CHOOSE i \in 1..Len(scores) :
             /\ scores[i].raised
             /\ \A j \in 1..(i - 1) : ~scores[j].raised
    ELSE Len(scores) + 1

\* variant: each prediction is inserted at the head of the list
BatchLoop_Prepend(scores, exit, c1, c2, roll) ==
    LET reached == IF exit > Len(scores) THEN Len(scores) ELSE exit
    IN  [raised |-> exit <= Len(scores),
         message |-> IF exit <= Len(scores) THEN scores[exit].message ELSE "",
         predictions |->
             [i \in 1..(exit - 1) |->
                 PredictionResponse(scores[exit - i].fraud_probability,
                                    scores[exit - i].is_fraud,
                                    scores[exit - i].confidence,
                                    0, ClockAt(exit - i, c1, c2, roll))],
         total_fraud |->
             Cardinality({i \in 1..(exit - 1) : scores[i].is_fraud}),
         derived |-> [i \in 1..reached |-> ClockAt(i, c1, c2, roll)],
         calls |-> [i \in 1..reached |-> scores[i].calls]]

\* variant: each prediction carries the time spent since the start of the
\* batch, one ms for every record processed so far
BatchLoop_TimedItems(scores, exit, c1, c2, roll) ==
    LET reached == IF exit > Len(scores) THEN Len(scores) ELSE exit
    IN  [raised |-> exit <= Len(scores),
         message |-> IF exit <= Len(scores) THEN scores[exit].message ELSE "",
         predictions |->
             [i \in 1..(exit - 1) |->
                 PredictionResponse(scores[i].fraud_probability,
                                    scores[i].is_fraud, scores[i].confidence,
                                    i, ClockAt(i, c1, c2, roll))],
         total_fraud |->
             Cardinality({i \in 1..(exit - 1) : scores[i].is_fraud}),
         derived |-> [i \in 1..reached |-> ClockAt(i, c1, c2, roll)],
         calls |-> [i \in 1..reached |-> scores[i].calls]]

\* the for loop of predict_fraud_batch: predictions and total_fraud when it
\* runs to its end, the exception when it does not, and the records reached
BatchLoop(scores, exit, c1, c2, roll) ==
    LET reached == IF exit > Len(scores) THEN Len(scores) ELSE exit
    IN  [raised |-> exit <= Len(scores),
         message |-> IF exit <= Len(scores) THEN scores[exit].message ELSE "",
         predictions |->
             [i \in 1..(exit - 1) |->
                 PredictionResponse(scores[i].fraud_probability,
                                    scores[i].is_fraud, scores[i].confidence,
                                    0, ClockAt(i, c1, c2, roll))],
         total_fraud |->
             Cardinality({i \in 1..(exit - 1) : scores[i].is_fraud}),
         derived |-> [i \in 1..reached |-> ClockAt(i, c1, c2, roll)],
         calls |-> [i \in 1..reached |-> scores[i].calls]]

\* variant: a failing record ends the loop and the predictions made so
\* far are returned
BatchOutcome_Partial(end, m, names, clock, elapsed) ==
    [resp |-> [status |-> 200,
               body |-> [predictions |-> end.predictions,
                         total_transactions |-> Len(end.predictions),
                         total_fraud_detected |-> end.total_fraud,
                         response_time_ms |-> elapsed]],
     trace |-> [model |-> m, feature_names |-> names, entered |-> TRUE,
                derived |-> end.derived, calls |-> end.calls]]

\* the return and the except clause of predict_fraud_batch, end the state
\* the loop was left in
BatchOutcome(end, m, names, clock, elapsed) ==
    [resp |-> IF end.raised
              THEN http_exception_handler(
                       500, <<"Batch prediction failed: ", end.message>>,
                       clock)
              ELSE [status |-> 200,
                    body |-> [predictions |-> end.predictions,
                              total_transactions |-> Len(end.predictions),
                              total_fraud_detected |-> end.total_fraud,
                              response_time_ms |-> elapsed]],
     trace |-> [model |-> m, feature_names |-> names, entered |-> TRUE,
                derived |-> end.derived, calls |-> end.calls]]

BatchRun(scores, m, names, c1, c2, roll, elapsed) ==
    BatchOutcome(BatchLoop(scores, LoopExit(scores), c1, c2, roll), m, names,
                 ClockAt(LoopExit(scores), c1, c2, roll), elapsed)

\* variant: the handle is checked inside the try block, so the 503 is
\* caught by `except Exception` and re-raised as a 500
predict_fraud_batch_CheckInsideTry(ts, m, names, c1, c2, roll, elapsed) ==
    IF m = None
    THEN [resp |-> http_exception_handler(
                       500, <<"Batch prediction failed: ",
                              "503: Model not loaded">>, c1),
          trace |-> [NoTrace(m, names) EXCEPT !.entered = TRUE]]
    ELSE IF Len(ts) > MaxItems
    THEN [resp |-> http_exception_handler(
                       400, <<"Maximum 100 transactions per batch">>, c1),
          trace |-> [NoTrace(m, names) EXCEPT !.entered = TRUE]]
    ELSE BatchRun(Scores(ts, m, names, c1, c2, roll), m, names, c1, c2, roll,
                  elapsed)

\* the handler body, for a body that passed the schema
predict_fraud_batch(ts, m, names, c1, c2, roll, elapsed) ==
    IF m = None
    THEN [resp |-> http_exception_handler(503, <<"Model not loaded">>, c1),
          trace |-> [NoTrace(m, names) EXCEPT !.entered = TRUE]]
    ELSE IF Len(ts) > MaxItems
    THEN [resp |-> http_exception_handler(
                       400, <<"Maximum 100 transactions per batch">>, c1),
          trace |-> [NoTrace(m, names) EXCEPT !.entered = TRUE]]
    ELSE BatchRun(Scores(ts, m, names, c1, c2, roll), m, names, c1, c2, roll,
                  elapsed)

\* the route: FastAPI parses and validates the body, then calls the handler
PostPredictBatch(body, m, names, c1, c2, roll, elapsed) ==
    IF ~body.wellformed
    THEN [resp |-> RequestValidationError({"body"}),
          trace |-> NoTrace(m, names)]
    ELSE IF ~BatchPredictionRequest(body.json)
    THEN [resp |-> RequestValidationError(
                       (IF Len(body.json) > MaxItems THEN {"transactions"}
                        ELSE {})
                       \cup UNION {ValidationErrors(body.json[i]) :
                                      i \in 1..Len(body.json)}),
          trace |-> NoTrace(m, names)]
    ELSE predict_fraud_batch([i \in 1..Len(body.json) |->
                                 model_validate(body.json[i])],
                             m, names, c1, c2, roll, elapsed)

----------------------------------------------------------------------------
(* GET /health, GET /metrics *)

\* variant: the status is a constant
health_check_AlwaysHealthy(m, clock) ==
    [status |-> 200,
     body |-> [status |-> "healthy", model_loaded |-> (m # None),
               timestamp |-> clock]]

health_check(m, clock) ==
    [status |-> 200,
     body |-> [status |-> IF m # None THEN "healthy" ELSE "unhealthy",
               model_loaded |-> (m # None), timestamp |-> clock]]

\* variant: feature_count taken from the estimator's n_features_in_
get_metrics_NFeatures(m, names, clock) ==
    [status |-> 200,
     body |-> [model_loaded |-> (m # None),
               model_type |-> IF m # None THEN m.type ELSE "null",
               feature_count |-> IF m # None THEN m.n_features_in ELSE 0,
               timestamp |-> clock]]

get_metrics(m, names, clock) ==
    [status |-> 200,
     body |-> [model_loaded |-> (m # None),
               model_type |-> IF m # None THEN m.type ELSE "null",
               feature_count |-> IF names # <<>> THEN Len(names) ELSE 0,
               timestamp |-> clock]]

----------------------------------------------------------------------------
(* Inputs *)

\* the records of src/tests/test_api.py
valid_transaction ==
    [transaction_amount |-> 15050, account_balance |-> 500000,
     transaction_type |-> "POS", device_type |-> "Mobile",
     location |-> "London", merchant_category |-> "Restaurants",
     ip_address_flag |-> 0, previous_fraudulent_activity |-> 0,
     daily_transaction_count |-> 5, avg_transaction_amount_7d |-> 12030,
     failed_transaction_count_7d |-> 0, card_type |-> "Visa",
     card_age |-> 365, transaction_distance |-> 150025,
     authentication_method |-> "PIN", risk_score |-> 15, is_weekend |-> 0]

online_transaction ==
    [transaction_amount |-> 7550, account_balance |-> 250000,
     transaction_type |-> "Online", device_type |-> "Laptop",
     location |-> "Paris", merchant_category |-> "Electronics",
     ip_address_flag |-> 1, previous_fraudulent_activity |-> 1,
     daily_transaction_count |-> 8, avg_transaction_amount_7d |-> 20000,
     failed_transaction_count_7d |-> 2, card_type |-> "Visa",
     card_age |-> 180, transaction_distance |-> 200000,
     authentication_method |-> "OTP", risk_score |-> 75, is_weekend |-> 0]

high_risk_transaction ==
    [transaction_amount |-> 500000, account_balance |-> 100000,
     transaction_type |-> "Transfer", device_type |-> "Tablet",
     location |-> "Unknown", merchant_category |-> "Travel",
     ip_address_flag |-> 1, previous_fraudulent_activity |-> 3,
     daily_transaction_count |-> 15, avg_transaction_amount_7d |-> 100000,
     failed_transaction_count_7d |-> 5, card_type |-> "Discover",
     card_age |-> 30, transaction_distance |-> 500000,
     authentication_method |-> "Password", risk_score |-> 95,
     is_weekend |-> 1]

low_risk_transaction ==
    [transaction_amount |-> 2500, account_balance |-> 5000000,
     transaction_type |-> "POS", device_type |-> "Mobile",
     location |-> "London", merchant_category |-> "Restaurants",
     ip_address_flag |-> 0, previous_fraudulent_activity |-> 0,
     daily_transaction_count |-> 2, avg_transaction_amount_7d |-> 3000,
     failed_transaction_count_7d |-> 0, card_type |-> "Visa",
     card_age |-> 1000, transaction_distance |-> 10000,
     authentication_method |-> "Biometric", risk_score |-> 5,
     is_weekend |-> 0]

\* an amount float32 cannot hold, a count float cannot hold
AmountHuge == 100 * Float32Max + 100
CountHuge == Float64Max + 1

\* other values a client may send for a field, inside and outside its domain
FieldValues(f) ==
    CASE f = "transaction_amount" -> {-10000, 0, 1, AmountHuge}
      [] f = "account_balance" -> {-1, 0}
      [] f = "transaction_type" -> {"InvalidType", "ATM Withdrawal", "Payment"}
      [] f = "device_type" -> {"InvalidDevice", "Desktop"}
      [] f = "location" -> {"Paris"}
      [] f = "merchant_category" -> {"ATM"}
      [] f = "ip_address_flag" -> {-1, 1, 2}
      [] f = "previous_fraudulent_activity" -> {-1, 3}
      [] f = "daily_transaction_count" -> {-1, 0, CountHuge}
      [] f = "avg_transaction_amount_7d" -> {-1, 0}
      [] f = "failed_transaction_count_7d" -> {-1, 2}
      [] f = "card_type" -> {"InvalidCard", "Amex", "Mastercard"}
      [] f = "card_age" -> {-1, 0}
      [] f = "transaction_distance" -> {-1, 0}
      [] f = "authentication_method" -> {"InvalidMethod", "OTP"}
      [] f = "risk_score" -> {-1, 0, 50, 100, 101, 150}
      [] f = "is_weekend" -> {-1, 1, 2}

Json(t) == [has |-> TransactionFields, val |-> t]

\* keys a client may add for the derived slots, with values that are
\* neither the wall clock nor what the formulas give for valid_transaction
SuppliedSlots ==
    [hour |-> <<12, 1>>, month |-> <<6, 1>>, high_failure_flag |-> <<1, 1>>,
     failure_rate |-> <<1, 2>>, amount_deviation |-> <<0, 1>>,
     risk_amount_interaction |-> <<0, 1>>]

\* valid_transaction sent with those keys added
WithSlots ==
    [has |-> TransactionFields \cup DOMAIN SuppliedSlots,
     val |-> [f \in TransactionFields \cup DOMAIN SuppliedSlots |->
                 IF f \in TransactionFields THEN valid_transaction[f]
                 ELSE SuppliedSlots[f]]]

\* the JSON objects a client sends as a transaction: the test records, one
\* with a field changed, one with a field left out
Objects ==
    {Json(t) : t \in {valid_transaction, online_transaction,
                      high_risk_transaction, low_risk_transaction}}
    \cup UNION {{Json([valid_transaction EXCEPT ![f] = v]) :
                    v \in FieldValues(f)} : f \in TransactionFields}
    \cup {[has |-> TransactionFields \ {f}, val |-> valid_transaction] :
             f \in TransactionFields}
    \cup {WithSlots}

\* data="invalid json"
Malformed == [wellformed |-> FALSE, json |-> <<>>]

PredictBodies ==
    {Malformed} \cup {[wellformed |-> TRUE, json |-> o] : o \in Objects}

\* the records batches are made of
BatchItems ==
    <<Json(valid_transaction), Json(high_risk_transaction),
      Json([valid_transaction EXCEPT !.transaction_amount = AmountHuge]),
      Json([valid_transaction EXCEPT !.daily_transaction_count = CountHuge]),
      Json([valid_transaction EXCEPT !.transaction_type = "InvalidType"])>>

\* every batch of at most SmallBatch records
SmallBatches ==
    UNION {[1..n -> {BatchItems[k] : k \in 1..Len(BatchItems)}] :
              n \in 0..SmallBatch}

\* [pattern] * n, as the tests build a large batch
Repeat(pattern, n) ==
    [i \in 1..n |-> pattern[((i - 1) % Len(pattern)) + 1]]

LargeBatches ==
    {Repeat(p, n) :
        p \in {<<BatchItems[1]>>, <<BatchItems[1], BatchItems[2]>>},
        n \in {MaxItems, MaxItems + 1}}

BatchBodies ==
    {Malformed}
    \cup {[wellformed |-> TRUE, json |-> b] :
             b \in SmallBatches \cup LargeBatches}

\* measured durations, in ms
Durations == {0, 7}

\* the wall clock: the last hour of the year, then the first of the next
Clock1 == [hour |-> 23, month |-> 12]
Clock2 == [hour |-> 0, month |-> 1]

----------------------------------------------------------------------------
(* monitoring_config.py *)

\* the metrics dict as the module creates it
EmptyMetrics ==
    [total_requests |-> 0, total_predictions |-> 0,
     total_batch_predictions |-> 0, total_errors |-> 0,
     response_times |-> <<>>, fraud_detected |-> 0, non_fraud_detected |-> 0]

\* what a wrapped function does when awaited: it returns its result or
\* raises; HTTPException is an Exception, CancelledError (the exception a
\* cancelled task gets at its await) is a BaseException only
Result == "result"
Exceptions == {"HTTPException", "CancelledError"}
Exception == {"HTTPException"}

\* wrapper, up to `await func(*args, **kwargs)`
wrapper_enter(m) == [m EXCEPT !.total_requests = @ + 1]

\* response_times[-1000:]
Last(seq, n) ==
    IF Len(seq) > n THEN SubSeq(seq, Len(seq) - n + 1, Len(seq)) ELSE seq

\* variant: the list is cut to its first 1000 entries
wrapper_return_KeepFirst(m, response_time) ==
    [m EXCEPT !.response_times =
        IF Len(Append(@, response_time)) > MaxSamples
        THEN SubSeq(Append(@, response_time), 1, MaxSamples)
        ELSE Append(@, response_time)]

\* wrapper, after func has returned: the sample is appended and the list
\* cut to its last 1000 entries
wrapper_return(m, response_time) ==
    [m EXCEPT !.response_times =
        IF Len(Append(@, response_time)) > MaxSamples
        THEN Last(Append(@, response_time), MaxSamples)
        ELSE Append(@, response_time)]

\* wrapper, after func has raised e: `except Exception` counts it, any
\* other exception passes through
wrapper_except(m, e) ==
    IF e \in Exception THEN [m EXCEPT !.total_errors = @ + 1] ELSE m

\* sum(response_times), by value
RECURSIVE SumByValue(_, _)
SumByValue(values, seq) ==
    IF values = {} THEN 0
    ELSE LET v == CHOOSE x \in values : TRUE
         IN  v * Cardinality({i \in DOMAIN seq : seq[i] = v})
                + SumByValue(values \ {v}, seq)

\* statistics.mean(response_times)
mean(seq) == Rat(SumByValue(Range(seq), seq), Len(seq))
min(seq) == CHOOSE v \in Range(seq) : \A w \in Range(seq) : v <= w
max(seq) == CHOOSE v \in Range(seq) : \A w \in Range(seq) : w <= v

\* sorted(response_times)[k], k counted from 0
sorted_at(seq, k) ==
    CHOOSE v \in Range(seq) :
        /\ Cardinality({i \in DOMAIN seq : seq[i] < v}) <= k
        /\ k < Cardinality({i \in DOMAIN seq : seq[i] <= v})

\* int(len(response_times) * 0.95); the double product truncates to this
\* for every length up to 1000
p95_index(n) == (n * 95) \div 100

\* get_metrics_summary(): numbers that Python divides are ratios <<n, d>>
get_metrics_summary(m) ==
    IF m.response_times # <<>>
    THEN [total_requests |-> m.total_requests,
          total_predictions |-> m.total_predictions,
          total_batch_predictions |-> m.total_batch_predictions,
          total_errors |-> m.total_errors,
          fraud_detected |-> m.fraud_detected,
          non_fraud_detected |-> m.non_fraud_detected,
          avg_response_time |-> mean(m.response_times),
          min_response_time |-> min(m.response_times),
          max_response_time |-> max(m.response_times),
          p95_response_time |->
              IF Len(m.response_times) > 20
              THEN sorted_at(m.response_times,
                             p95_index(Len(m.response_times)))
              ELSE None,
          error_rate |-> IF m.total_requests > 0
                         THEN Rat(m.total_errors, m.total_requests)
                         ELSE Rat(0, 1)]
    ELSE [total_requests |-> m.total_requests,
          total_predictions |-> m.total_predictions,
          total_batch_predictions |-> m.total_batch_predictions,
          total_errors |-> m.total_errors,
          fraud_detected |-> m.fraud_detected,
          non_fraud_detected |-> m.non_fraud_detected,
          avg_response_time |-> Rat(0, 1),
          error_rate |-> Rat(0, 1)]

\* reset_metrics(): the global is bound to a new dict
reset_metrics == EmptyMetrics

----------------------------------------------------------------------------
(* Actions *)

NoRequest == [route |-> "", body |-> Malformed]
NoResponse == [status |-> 0, body |-> [none |-> TRUE]]

\* the clients that send requests at the same time, and a client with no
\* request in flight
Clients == 1..NClients
IdleSlot ==
    [stage |-> "idle", req |-> NoRequest, resp |-> NoResponse,
     trace |-> NoTrace(None, <<>>), at |-> Clock1]

\* a caller that has no wrapped call at its await
NoCall == [pc |-> "idle", func |-> "", caller |-> ""]

\* the history after wrapped calls that returned one after the other with
\* the given response times
ObservedAfter(times) ==
    [made |-> 0, calls |-> Len(times), returned |-> Len(times), raised |-> 0,
     caught |-> 0, samples |-> times, concurrent |-> FALSE, reset |-> FALSE]

Init ==
    /\ model = None
    /\ feature_names = <<>>
    /\ lifespan_pc = "idle"
    /\ now = Clock1
    /\ req = NoRequest
    /\ resp = NoResponse
    /\ trace = NoTrace(None, <<>>)
    /\ inflight = [c \in Clients |-> IdleSlot]
    /\ metrics = EmptyMetrics
    /\ wrapper = [c \in Clients |-> NoCall]
    /\ summary = None
    /\ observed = ObservedAfter(<<>>)

\* the application answers requests once the lifespan has yielded, and
\* also when it is driven without its lifespan (TestClient(app) outside a
\* with block, as src/tests/test_api.py does)
Serving == lifespan_pc \in {"idle", "serving"}

\* lifespan, up to the yield, joblib.load returning artifact a
Startup(a) ==
    /\ lifespan_pc = "idle"
    /\ model' = a
    /\ feature_names' = IF a.has_feature_names_in THEN a.feature_names_in
                        ELSE DefaultFeatureNames
    /\ lifespan_pc' = "serving"
    /\ UNCHANGED <<now, req, resp, trace, inflight,
                 monitoring>>

\* lifespan, joblib.load raising: logged and re-raised, the server exits
StartupFails ==
    /\ lifespan_pc = "idle"
    /\ lifespan_pc' = "failed"
    /\ UNCHANGED <<model, feature_names, now, req, resp, trace, inflight,
                 monitoring>>

\* variant: the handle is dropped on shutdown
Shutdown_ClearsHandle ==
    /\ lifespan_pc = "serving"
    /\ lifespan_pc' = "stopped"
    /\ model' = None
    /\ UNCHANGED <<feature_names, now, req, resp, trace, inflight,
                   monitoring>>

\* lifespan, after the yield
Shutdown ==
    /\ lifespan_pc = "serving"
    /\ lifespan_pc' = "stopped"
    /\ UNCHANGED <<model, feature_names, now, req, resp, trace, inflight,
                 monitoring>>

Tick ==
    /\ now = Clock1
    /\ now' = Clock2
    /\ UNCHANGED <<model, feature_names, lifespan_pc, req, resp, trace, inflight,
                 monitoring>>

\* variant: the handler forgets the feature names after a failed prediction
Predict_ForgetsNames(body, elapsed) ==
    /\ Serving
    /\ req = NoRequest
    /\ LET r == PostPredict(body, model, feature_names, now, elapsed)
       IN  /\ req' = [route |-> "/predict", body |-> body]
           /\ resp' = r.resp
           /\ trace' = r.trace
           /\ feature_names' = IF r.resp.status = 500 THEN <<>>
                               ELSE feature_names
    /\ UNCHANGED <<model, lifespan_pc, now, inflight,
                 monitoring>>

\* a request is handled in one step: the handlers are coroutines that
\* never await, so the event loop runs each from start to end
Predict(body, elapsed) ==
    /\ Serving
    /\ req = NoRequest
    /\ LET r == PostPredict(body, model, feature_names, now, elapsed)
       IN  /\ req' = [route |-> "/predict", body |-> body]
           /\ resp' = r.resp
           /\ trace' = r.trace
    /\ UNCHANGED <<model, feature_names, lifespan_pc, now, inflight,
                 monitoring>>

\* the clock may advance while a batch is processed, after `roll` records
PredictBatch(body, roll, elapsed) ==
    /\ Serving
    /\ req = NoRequest
    /\ roll = Len(body.json) \/ now = Clock1
    /\ LET later == IF roll < Len(body.json) THEN Clock2 ELSE now
           r == PostPredictBatch(body, model, feature_names, now, later, roll,
                                 elapsed)
       IN  /\ now' = later
           /\ req' = [route |-> "/predict/batch", body |-> body]
           /\ resp' = r.resp
           /\ trace' = r.trace
    /\ UNCHANGED <<model, feature_names, lifespan_pc, inflight,
                 monitoring>>

Health ==
    /\ Serving
    /\ req = NoRequest
    /\ req' = [route |-> "/health", body |-> Malformed]
    /\ resp' = health_check(model, now)
    /\ trace' = NoTrace(model, feature_names)
    /\ UNCHANGED <<model, feature_names, lifespan_pc, now, inflight,
                 monitoring>>

Metrics ==
    /\ Serving
    /\ req = NoRequest
    /\ req' = [route |-> "/metrics", body |-> Malformed]
    /\ resp' = get_metrics(model, feature_names, now)
    /\ trace' = NoTrace(model, feature_names)
    /\ UNCHANGED <<model, feature_names, lifespan_pc, now, inflight,
                 monitoring>>

\* a request for a path no route matches: the router raises Starlette's
\* HTTPException(404), which the handler registered for fastapi's
\* HTTPException does not take; the default handler answers it
NotFound ==
    /\ Serving
    /\ req = NoRequest
    /\ req' = [route |-> "/nonexistent", body |-> Malformed]
    /\ resp' = [status |-> 404, body |-> [detail |-> <<"Not Found">>]]
    /\ trace' = NoTrace(model, feature_names)
    /\ UNCHANGED <<model, feature_names, lifespan_pc, now, inflight,
                 monitoring>>

\* the response is sent and the request is over
Respond ==
    /\ req # NoRequest
    /\ req' = NoRequest
    /\ resp' = NoResponse
    /\ trace' = NoTrace(None, <<>>)
    /\ UNCHANGED <<model, feature_names, lifespan_pc, now, inflight,
                 monitoring>>

Next ==
    \/ \E a \in Artifacts : Startup(a)
    \/ StartupFails
    \/ Shutdown
    \/ Tick
    \/ \E body \in PredictBodies, elapsed \in Durations :
          Predict(body, elapsed)
    \/ \E body \in BatchBodies, elapsed \in Durations :
          \E roll \in {1, Len(body.json)} : PredictBatch(body, roll, elapsed)
    \/ Health
    \/ Metrics
    \/ NotFound
    \/ Respond

Spec == Init /\ [][Next]_vars

----------------------------------------------------------------------------
(* Concurrent clients.  The server reads a request, then validates it and  *)
(* runs its handler, then sends the response.  The handlers never await,   *)
(* so validation and handler are one step of the event loop; reading the   *)
(* request and sending the response are others, and the requests of other  *)
(* clients are served in between.                                          *)

\* the requests concurrent clients send
PredictRequest(o) ==
    [route |-> "/predict", body |-> [wellformed |-> TRUE, json |-> o]]
BatchRequest(b) ==
    [route |-> "/predict/batch", body |-> [wellformed |-> TRUE, json |-> b]]
ConcurrentRequests ==
    <<PredictRequest(BatchItems[1]), PredictRequest(BatchItems[4]),
      PredictRequest(BatchItems[5]),
      BatchRequest(<<BatchItems[2], BatchItems[3]>>)>>

\* the route of request r run on the handle and the clock of now
Route(r, m, names, clock, elapsed) ==
    IF r.route = "/predict"
    THEN PostPredict(r.body, m, names, clock, elapsed)
    ELSE PostPredictBatch(r.body, m, names, clock, clock, Len(r.body.json),
                          elapsed)

\* the request of client c has been read
Receive(c, r) ==
    /\ Serving
    /\ inflight[c].stage = "idle"
    /\ inflight' = [inflight EXCEPT ![c] = [IdleSlot EXCEPT !.stage = "read",
                                                          !.req = r]]
    /\ UNCHANGED <<model, feature_names, lifespan_pc, now, req, resp, trace,
                 monitoring>>

\* variant: the request is kept in a module global between reading and
\* handling, so the handler runs on the request read last
Handle_SharedRequest(c, elapsed) ==
    /\ inflight[c].stage = "read"
    /\ LET others == {d \in Clients \ {c} : inflight[d].stage = "read"}
           held == IF others = {} THEN inflight[c].req
                   ELSE inflight[CHOOSE d \in others : TRUE].req
           r == Route(held, model, feature_names, now, elapsed)
       IN  inflight' = [inflight EXCEPT ![c] = [@ EXCEPT !.stage = "handled",
                                                         !.resp = r.resp,
                                                         !.trace = r.trace,
                                                         !.at = now]]
    /\ UNCHANGED <<model, feature_names, lifespan_pc, now, req, resp, trace,
                 monitoring>>

\* variant: the deriver removes from the global list the names it had to
\* fill with a default
Handle_ConsumesNames(c, elapsed) ==
    /\ inflight[c].stage = "read"
    /\ LET r == Route(inflight[c].req, model, feature_names, now, elapsed)
       IN  /\ inflight' = [inflight EXCEPT ![c] =
                              [@ EXCEPT !.stage = "handled", !.resp = r.resp,
                                        !.trace = r.trace, !.at = now]]
           /\ feature_names' =
                 IF r.trace.derived = <<>> THEN feature_names
                 ELSE SelectSeq(feature_names,
                                LAMBDA f : f \in Range(DerivedColumns))
    /\ UNCHANGED <<model, lifespan_pc, now, req, resp, trace,
                 monitoring>>

\* the request of client c is validated and its handler runs to its end
Handle(c, elapsed) ==
    /\ inflight[c].stage = "read"
    /\ LET r == Route(inflight[c].req, model, feature_names, now, elapsed)
       IN  inflight' = [inflight EXCEPT ![c] = [@ EXCEPT !.stage = "handled",
                                                         !.resp = r.resp,
                                                         !.trace = r.trace,
                                                         !.at = now]]
    /\ UNCHANGED <<model, feature_names, lifespan_pc, now, req, resp, trace,
                 monitoring>>

\* the response to client c has been sent
Send(c) ==
    /\ inflight[c].stage = "handled"
    /\ inflight' = [inflight EXCEPT ![c] = IdleSlot]
    /\ UNCHANGED <<model, feature_names, lifespan_pc, now, req, resp, trace,
                 monitoring>>

NextConcurrent ==
    \/ \E a \in Artifacts : Startup(a)
    \/ StartupFails
    \/ Shutdown
    \/ Tick
    \/ \E c \in Clients, k \in 1..Len(ConcurrentRequests) :
          Receive(c, ConcurrentRequests[k])
    \/ \E c \in Clients, elapsed \in {d \in Durations : d > 0} :
          Handle(c, elapsed)
    \/ \E c \in Clients : Send(c)

SpecConcurrent == Init /\ [][NextConcurrent]_vars

----------------------------------------------------------------------------
(* Wrapped calls.  A function decorated with track_metrics is awaited by   *)
(* its wrapper; other coroutines run while it is suspended, so a call is   *)
(* two steps of the event loop: up to the await, and from the await on.    *)

\* a process that has made MaxSamples - 1 wrapped calls so far, which
\* returned one after the other
WarmTimes == [i \in 1..(MaxSamples - 1) |-> IF i % 3 = 1 THEN 7 ELSE 0]
WarmMetrics ==
    [EmptyMetrics EXCEPT !.total_requests = Len(WarmTimes),
                         !.response_times = WarmTimes]

InitMetrics ==
    /\ model = None
    /\ feature_names = <<>>
    /\ lifespan_pc = "idle"
    /\ now = Clock1
    /\ req = NoRequest
    /\ resp = NoResponse
    /\ trace = NoTrace(None, <<>>)
    /\ inflight = [c \in Clients |-> IdleSlot]
    /\ wrapper = [c \in Clients |-> NoCall]
    /\ summary = None
    /\ \/ metrics = EmptyMetrics /\ observed = ObservedAfter(<<>>)
       \/ metrics = WarmMetrics /\ observed = ObservedAfter(WarmTimes)

\* variant: total_requests is read before and written after another
\* coroutine runs, so the increment of a call made while another call is
\* at its await is lost
Call_LostIncrement(c) ==
    /\ wrapper[c].pc = "idle"
    /\ observed.made < MaxCalls
    /\ metrics' = IF \E d \in Clients : wrapper[d].pc = "await"
                  THEN metrics ELSE wrapper_enter(metrics)
    /\ wrapper' = [wrapper EXCEPT ![c] = [NoCall EXCEPT !.pc = "await"]]
    /\ observed' = [observed EXCEPT
                       !.made = @ + 1, !.calls = @ + 1,
                       !.concurrent =
                           @ \/ \E d \in Clients : wrapper[d].pc = "await"]
    /\ summary' = None
    /\ UNCHANGED application

\* caller c awaits a wrapped function: the wrapper runs up to its await
Call(c) ==
    /\ wrapper[c].pc = "idle"
    /\ observed.made < MaxCalls
    /\ metrics' = wrapper_enter(metrics)
    /\ wrapper' = [wrapper EXCEPT ![c] = [NoCall EXCEPT !.pc = "await"]]
    /\ observed' = [observed EXCEPT
                       !.made = @ + 1, !.calls = @ + 1,
                       !.concurrent =
                           @ \/ \E d \in Clients : wrapper[d].pc = "await"]
    /\ summary' = None
    /\ UNCHANGED application

\* the function returns, response_time after the wrapper started
Returns(c, response_time) ==
    /\ wrapper[c].pc = "await"
    /\ metrics' = wrapper_return(metrics, response_time)
    /\ wrapper' = [wrapper EXCEPT ![c] =
                      [pc |-> "idle", func |-> Result, caller |-> Result]]
    /\ observed' = [observed EXCEPT
                       !.returned = @ + 1,
                       !.samples = Append(@, response_time)]
    /\ summary' = None
    /\ UNCHANGED application

\* the function raises e
Raises(c, e) ==
    /\ wrapper[c].pc = "await"
    /\ metrics' = wrapper_except(metrics, e)
    /\ wrapper' = [wrapper EXCEPT ![c] =
                      [pc |-> "idle", func |-> e, caller |-> e]]
    /\ observed' = [observed EXCEPT
                       !.raised = @ + 1,
                       !.caught = IF e \in Exception THEN @ + 1 ELSE @]
    /\ summary' = None
    /\ UNCHANGED application

\* get_metrics_summary() is called and returns
Summary ==
    /\ summary' = get_metrics_summary(metrics)
    /\ UNCHANGED <<metrics, wrapper, observed, application>>

\* reset_metrics() is called
Reset ==
    /\ metrics' = reset_metrics
    /\ observed' = [observed EXCEPT !.reset = TRUE, !.samples = <<>>]
    /\ summary' = None
    /\ UNCHANGED <<wrapper, application>>

NextMetrics ==
    \/ \E c \in Clients : Call(c)
    \/ \E c \in Clients, response_time \in Durations :
          Returns(c, response_time)
    \/ \E c \in Clients, e \in Exceptions : Raises(c, e)
    \/ Summary
    \/ Reset

SpecMetrics == InitMetrics /\ [][NextMetrics]_vars

----------------------------------------------------------------------------
(* Observations the properties below are stated with *)

IsPredict == req.route = "/predict"
IsBatch == req.route = "/predict/batch"
ModelLoaded == trace.model # None

\* a JSON object has every required field, each inside its domain
InDomain(o) ==
    /\ TransactionFields \subseteq o.has
    /\ o.val.transaction_amount > 0
    /\ \A f \in {"account_balance", "avg_transaction_amount_7d",
                 "failed_transaction_count_7d", "transaction_distance",
                 "card_age", "daily_transaction_count",
                 "previous_fraudulent_activity"} : o.val[f] >= 0
    /\ o.val.risk_score >= 0 /\ o.val.risk_score <= 100
    /\ o.val.ip_address_flag \in {0, 1}
    /\ o.val.is_weekend \in {0, 1}
    /\ o.val.transaction_type
          \in {"ATM Withdrawal", "POS", "Online", "Transfer", "Payment"}
    /\ o.val.device_type \in {"Mobile", "Laptop", "Tablet", "Desktop"}
    /\ o.val.authentication_method \in {"Biometric", "Password", "PIN", "OTP"}
    /\ o.val.card_type \in {"Visa", "Mastercard", "Discover", "Amex"}

\* the body of the request in flight is a record inside its domain
ValidRecord == req.body.wellformed /\ InDomain(req.body.json)

\* the items of the batch in flight
Items == req.body.json
AllItemsValid ==
    req.body.wellformed /\ \A i \in 1..Len(Items) : InDomain(Items[i])

\* nothing was derived and no model call was made for the request in flight
NothingScored == trace.derived = <<>> /\ trace.calls = <<>>

\* the model calls made while record i was processed
CallsFor(i) == trace.calls[i]

\* the message of the exception that ended the processing of record i
RaisedAt(i) ==
    IF CallsFor(i) = <<>>
    THEN preprocess_transaction(
             IF IsPredict THEN req.body.json.val ELSE Items[i].val,
             trace.feature_names, trace.derived[i]).message
    ELSE CallsFor(i)[Len(CallsFor(i))].out.message

\* processing record i ended in an exception
Raised(i) ==
    \/ CallsFor(i) = <<>>
    \/ CallsFor(i)[Len(CallsFor(i))].out.raised

\* the predictions of a 200 answer to /predict or /predict/batch
Predictions ==
    IF resp.status # 200 THEN <<>>
    ELSE IF IsPredict THEN <<resp.body>>
    ELSE IF IsBatch THEN resp.body.predictions
    ELSE <<>>

----------------------------------------------------------------------------
C2_UnavailableWithoutModel ==
    /\ (IsPredict /\ ~ModelLoaded /\ ValidRecord) =>
           resp.status = 503 /\ NothingScored
    /\ (IsBatch /\ ~ModelLoaded /\ AllItemsValid /\ Len(Items) <= 100) =>
           resp.status = 503 /\ NothingScored

C2_Witness ==
    /\ IsBatch
    /\ ~ModelLoaded
    /\ AllItemsValid
    /\ Len(Items) = 2
    /\ resp.status = 503
    /\ resp.body.error = <<"Model not loaded">>

C4_ProbabilityAndClass ==
    \A i \in 1..Len(Predictions) :
        /\ Len(CallsFor(i)) = 2
        /\ CallsFor(i)[1].op = "predict_proba"
        /\ CallsFor(i)[2].op = "predict"
        /\ CallsFor(i)[2].df = CallsFor(i)[1].df
        /\ Predictions[i].fraud_probability = CallsFor(i)[1].out.value[2]
        /\ Predictions[i].fraud_probability >= 0
        /\ Predictions[i].fraud_probability <= One
        /\ Predictions[i].is_fraud <=> (CallsFor(i)[2].out.value = 1)

\* a batch with a fraud and a non-fraud, one of them on the other side of
\* 0.5 than its class
C4_Witness ==
    /\ IsBatch
    /\ \E i, j \in 1..Len(Predictions) :
          /\ Predictions[i].is_fraud
          /\ ~Predictions[j].is_fraud
          /\ Predictions[i].fraud_probability <= Half

\* what holds between a probability p and its confidence c
ConfidenceLaw(p, c) ==
    /\ c >= 0 /\ c <= One
    /\ c = 0 <=> p = Half
    /\ p \in {0, One} => c = One
    /\ c = One <=> (p = One \/ p * 2^(MantBits + 2) <= One)
    /\ 4 * p >= One => c = 2 * Abs(p - Half)

Probabilities == {p \in Floats : p >= 0 /\ p <= One}

(* C5, as claimed: the confidence is |p - 0.5| * 2 and is 1 exactly when   *)
(* p is 0 or 1.                                                            *)
C5_ConfidenceExact ==
    \A i \in 1..Len(Predictions) :
        /\ Predictions[i].confidence
              = 2 * Abs(Predictions[i].fraud_probability - Half)
        /\ Predictions[i].confidence = One
              <=> Predictions[i].fraud_probability \in {0, One}

(* C5, amended: the confidence is the float abs(p - 0.5) * 2 evaluates to. *)
(* It is in [0,1], 0 exactly when p = 0.5, 1 when p is 0 or 1 and also     *)
(* when p > 0 is so small that 0.5 - p rounds to 0.5; it equals            *)
(* |p - 0.5| * 2 exactly when p >= 0.25; two floats that add up to 1 have  *)
(* the same confidence.                                                    *)
C5_ConfidenceRounded ==
    /\ \A i \in 1..Len(Predictions) :
          /\ Predictions[i].confidence
                = Confidence(Predictions[i].fraud_probability)
          /\ ConfidenceLaw(Predictions[i].fraud_probability,
                           Predictions[i].confidence)
    /\ \A p \in Probabilities :
          /\ ConfidenceLaw(p, Confidence(p))
          /\ (One - p) \in Floats => Confidence(One - p) = Confidence(p)

C5_Witness ==
    \E i \in 1..Len(Predictions) :
        /\ Predictions[i].fraud_probability > 0
        /\ Predictions[i].fraud_probability < Half
        /\ Predictions[i].confidence = One

\* the frame derived from item i of the batch in flight
FrameOf(i) ==
    preprocess_transaction(Items[i].val, trace.feature_names,
                           trace.derived[i]).df

(* C6: a 200 answer to a batch of n records has n predictions, the i-th    *)
(* computed from the i-th record, total_transactions = n, and              *)
(* total_fraud_detected the number of predictions with is_fraud.           *)
C6_BatchResult ==
    (IsBatch /\ resp.status = 200) =>
        /\ Len(resp.body.predictions) = Len(Items)
        /\ resp.body.total_transactions = Len(Items)
        /\ resp.body.total_fraud_detected
              = Cardinality({i \in 1..Len(resp.body.predictions) :
                                resp.body.predictions[i].is_fraud})
        /\ Len(trace.derived) = Len(Items)
        /\ \A i \in 1..Len(Items) :
              /\ CallsFor(i)[1].df = FrameOf(i)
              /\ resp.body.predictions[i].fraud_probability
                    = CallsFor(i)[1].out.value[2]
              /\ resp.body.predictions[i].is_fraud
                    <=> (CallsFor(i)[2].out.value = 1)

\* three records, not all alike, some but not all of them fraud
C6_Witness ==
    /\ IsBatch
    /\ resp.status = 200
    /\ Len(Items) = 3
    /\ Items[1] # Items[2]
    /\ resp.body.predictions[1].fraud_probability
          # resp.body.predictions[2].fraud_probability
    /\ resp.body.total_fraud_detected \in {1, 2}

(* C7: with a model loaded, a batch of valid records of size 0 to 100 is   *)
(* taken by the handler and scored (200 unless a record fails, an empty    *)
(* batch giving 200 with both totals 0); a batch of 101 or more is         *)
(* answered 400 or 422 and none of its records is scored.                  *)
C7_BatchSizeLimit ==
    (IsBatch /\ ModelLoaded /\ AllItemsValid) =>
        /\ Len(Items) <= 100 =>
              /\ trace.entered
              /\ resp.status \in {200, 500}
              /\ resp.status = 500 => Raised(Len(trace.derived))
        /\ Len(Items) = 0 =>
              /\ resp.status = 200
              /\ resp.body.predictions = <<>>
              /\ resp.body.total_transactions = 0
              /\ resp.body.total_fraud_detected = 0
        /\ Len(Items) >= 101 =>
              /\ resp.status \in {400, 422}
              /\ NothingScored

C7_Witness ==
    /\ IsBatch
    /\ ModelLoaded
    /\ AllItemsValid
    /\ Len(Items) = 100
    /\ resp.status = 200
    /\ resp.body.total_transactions = 100

(* C8: the records of a batch are processed in order up to the first that  *)
(* fails; when one fails the answer is a 500 whose message is              *)
(* 'Batch prediction failed: ' and the cause, no later record is           *)
(* processed and the answer carries no predictions.                        *)
C8_BatchAllOrNothing ==
    (IsBatch /\ trace.entered /\ ModelLoaded) =>
        LET k == Len(trace.derived)
        IN  /\ Len(trace.calls) = k
            /\ k <= Len(Items)
            /\ \A i \in 1..(k - 1) : ~Raised(i)
            /\ (k >= 1 /\ Raised(k)) =>
                  /\ resp.status = 500
                  /\ resp.body.error
                        = <<"Batch prediction failed: ", RaisedAt(k)>>
                  /\ DOMAIN resp.body = {"error", "status_code", "timestamp"}
            /\ (k = 0 \/ ~Raised(k)) =>
                  /\ k = Len(Items)
                  /\ resp.status = 200

\* the second of three records fails
C8_Witness ==
    /\ IsBatch
    /\ ModelLoaded
    /\ Len(Items) = 3
    /\ Len(trace.derived) = 2
    /\ ~Raised(1)
    /\ Raised(2)
    /\ resp.status = 500

C10_PredictionFailed ==
    (IsPredict /\ ModelLoaded /\ ValidRecord) =>
        /\ Len(trace.derived) = 1
        /\ Len(trace.calls) = 1
        /\ Raised(1) =>
              /\ resp.status = 500
              /\ resp.body.error = <<"Prediction failed: ", RaisedAt(1)>>
              /\ resp.body.status_code = 500
        /\ ~Raised(1) => resp.status = 200

\* the derivation raises before any model call
C10_Witness ==
    /\ IsPredict
    /\ ModelLoaded
    /\ ValidRecord
    /\ CallsFor(1) = <<>>
    /\ resp.status = 500
    /\ resp.body.error
          = <<"Prediction failed: ", "int too large to convert to float">>

----------------------------------------------------------------------------
(* The feature vectors of the request in flight *)

\* the records the handler was given, the i-th being the i-th it derived
RecordAt(i) == IF IsPredict THEN req.body.json.val ELSE Items[i].val

\* the records for which the deriver returned a frame
Framed == {i \in 1..Len(trace.derived) : CallsFor(i) # <<>>}

\* the frame the deriver returned for record i, as handed to predict_proba
Frame(i) == CallsFor(i)[1].df

\* cell c is the rational n / d
IsRatio(c, n, d) == c[1] * d = n * c[2] /\ c[2] > 0

ObjectAt(i) == IF IsPredict THEN req.body.json ELSE Items[i]

\* the column of the frame each derived slot is stored in
SlotColumn ==
    [hour |-> "Hour", month |-> "Month",
     high_failure_flag |-> "High_Failure_Flag",
     failure_rate |-> "Failure_Rate",
     amount_deviation |-> "Amount_Deviation",
     risk_amount_interaction |-> "Risk_Amount_Interaction"]

(* C12: when the caller supplies a value for hour, month,                  *)
(* high_failure_flag, failure_rate, amount_deviation or                    *)
(* risk_amount_interaction, the frame carries the supplied value in that   *)
(* column.                                                                 *)
C12_SuppliedValueCarried ==
    \A i \in Framed :
        \A k \in DOMAIN SlotColumn \cap ObjectAt(i).has :
            SlotColumn[k] \in DOMAIN Frame(i).val =>
                Frame(i).val[SlotColumn[k]] = ObjectAt(i).val[k]

\* what the deriver returns for record i, computed again
Preprocessed(i) ==
    preprocess_transaction(model_validate(ObjectAt(i)), trace.feature_names,
                           trace.derived[i])

(* C13: when feature_names is not empty, the frame the deriver returns has *)
(* exactly the columns of feature_names, in that order; the columns that   *)
(* are not among the eleven derived ones hold 0.0 and the derived ones     *)
(* keep their values; a missing column is logged as a warning and raises   *)
(* nothing.                                                                *)
C13_FrameMatchesFeatureNames ==
    \A i \in Framed :
        trace.feature_names # <<>> =>
            LET names == trace.feature_names
                eleven == {DerivedColumns[k] : k \in 1..Len(DerivedColumns)}
                expected == {names[k] : k \in 1..Len(names)}
            IN  /\ ~Preprocessed(i).raised
                /\ Frame(i) = Preprocessed(i).df
                /\ Frame(i).cols = names
                /\ DOMAIN Frame(i).val = expected
                /\ \A f \in expected \ eleven : Frame(i).val[f] = <<0, 1>>
                /\ \A f \in expected \cap eleven :
                      Frame(i).val[f]
                         = Derived(model_validate(ObjectAt(i)),
                                   trace.derived[i]).val[f]
                /\ Preprocessed(i).warned <=> ~(expected \subseteq eleven)

\* a model that expects a column the deriver does not build scores a record
C13_Witness ==
    /\ IsPredict
    /\ resp.status = 200
    /\ 1 \in Framed
    /\ Len(Frame(1).cols) = 12
    /\ Frame(1).cols[1] = "Account_Balance"
    /\ Frame(1).val.Account_Balance = <<0, 1>>
    /\ Preprocessed(1).warned

(* C14: GET /health answers 200; model_loaded tells whether the model     *)
(* handle is set, and status is 'healthy' when it is and 'unhealthy' when  *)
(* it is not.                                                              *)
C14_HealthReportsHandle ==
    req.route = "/health" =>
        /\ resp.status = 200
        /\ resp.body.model_loaded = (trace.model # None)
        /\ resp.body.status \in {"healthy", "unhealthy"}
        /\ resp.body.status = "healthy" <=> resp.body.model_loaded

\* after a successful load
C14_Witness ==
    /\ req.route = "/health"
    /\ lifespan_pc = "serving"
    /\ model # None
    /\ resp.body.model_loaded
    /\ resp.body.status = "healthy"

(* C15: GET /metrics answers 200; model_loaded tells whether the model     *)
(* handle is set, model_type is the type name of the loaded model and is   *)
(* null exactly when none is loaded, and feature_count is the length of    *)
(* feature_names.                                                          *)
C15_MetricsReportHandle ==
    req.route = "/metrics" =>
        /\ resp.status = 200
        /\ resp.body.model_loaded = (trace.model # None)
        /\ trace.model # None => resp.body.model_type = trace.model.type
        /\ resp.body.model_type = "null" <=> trace.model = None
        /\ resp.body.feature_count = Len(trace.feature_names)

\* an estimator fit on eleven columns, served with the seventeen default
\* names
C15_Witness ==
    /\ req.route = "/metrics"
    /\ resp.body.model_loaded
    /\ resp.body.model_type = "LogisticRegression"
    /\ resp.body.feature_count = 17

(* C16: every error response (status 400 and above) has a body with an    *)
(* error field, a status_code or detail field, and a timestamp.            *)
C16_ErrorBodyShape ==
    resp.status >= 400 =>
        /\ "error" \in DOMAIN resp.body
        /\ "status_code" \in DOMAIN resp.body \/ "detail" \in DOMAIN resp.body
        /\ "timestamp" \in DOMAIN resp.body

(* C17: model and feature_names are written only by the startup part of   *)
(* the lifespan, which runs at most once; no request, failing or not,      *)
(* changes either of them.                                                 *)
C17_HandleWrittenOnce ==
    [][/\ (model' # model \/ feature_names' # feature_names) =>
              /\ lifespan_pc = "idle"
              /\ lifespan_pc' = "serving"
       /\ lifespan_pc' = "idle" => lifespan_pc = "idle"]_vars

\* after startup a prediction has failed and the handle is the one loaded
C17_Witness ==
    /\ lifespan_pc = "serving"
    /\ IsPredict
    /\ resp.status = 500
    /\ model = trace.model
    /\ model # None
    /\ feature_names = trace.feature_names
    /\ feature_names # <<>>

(* C20, as claimed: a record with daily_transaction_count = 0 is not       *)
(* accepted, so every record the deriver is given has a count of at        *)
(* least 1.                                                                *)
C20_CountPositive ==
    \A i \in 1..Len(trace.derived) :
        RecordAt(i).daily_transaction_count >= 1

(* C20, amended: daily_transaction_count is a non-negative integer.  A     *)
(* record with a count of 0 is accepted and derived (Failure_Rate is 0.0), *)
(* a record with a negative count is answered 422, and every record the    *)
(* deriver is given has a count of at least 0.                             *)
C20_CountNonNegative ==
    /\ \A i \in 1..Len(trace.derived) :
          RecordAt(i).daily_transaction_count >= 0
    /\ (/\ IsPredict
        /\ req.body.wellformed
        /\ "daily_transaction_count" \in req.body.json.has) =>
          /\ req.body.json.val.daily_transaction_count < 0 =>
                resp.status = 422 /\ NothingScored
          /\ (/\ req.body.json.val.daily_transaction_count = 0
              /\ ValidRecord
              /\ ModelLoaded) =>
                /\ resp.status # 422
                /\ Len(trace.derived) = 1
                /\ 1 \in Framed

C20_Witness ==
    /\ IsPredict
    /\ ModelLoaded
    /\ ValidRecord
    /\ req.body.json.val.daily_transaction_count = 0
    /\ Len(trace.derived) = 1
    /\ resp.status = 200
    /\ resp.body.fraud_probability >= 0

----------------------------------------------------------------------------
(* Concurrent clients: what each was answered *)

Handled == {c \in Clients : inflight[c].stage = "handled"}

\* the feature names the lifespan resolves for handle m
Resolved(m) ==
    IF m = None THEN <<>>
    ELSE IF m.has_feature_names_in THEN m.feature_names_in
    ELSE DefaultFeatureNames

Verdict(p) == <<p.fraud_probability, p.is_fraud, p.confidence>>

\* the status of response r and the verdict of each of its predictions
Outcomes(r) ==
    [status |-> r.status,
     verdicts |->
         IF r.status # 200 THEN <<>>
         ELSE IF "predictions" \in DOMAIN r.body
         THEN [i \in 1..Len(r.body.predictions) |->
                  Verdict(r.body.predictions[i])]
         ELSE <<Verdict(r.body)>>]

\* the response to the request of client c, had it been the only request
\* served, by the handle it found and at the time it was handled
ServedAlone(c) ==
    Route(inflight[c].req, inflight[c].trace.model,
          Resolved(inflight[c].trace.model), inflight[c].at, 0).resp

(* C18: whatever requests are in flight at the same time and however       *)
(* their steps interleave, each request gets the status and the            *)
(* fraud_probability, is_fraud and confidence it would have got had it     *)
(* been served alone.                                                      *)
C18_RequestsIsolated ==
    \A c \in Handled : Outcomes(inflight[c].resp) = Outcomes(ServedAlone(c))

\* a prediction and a batch were in flight together; one failed
C18_Witness ==
    /\ Handled = Clients
    /\ inflight[1].req.route = "/predict"
    /\ inflight[2].req.route = "/predict/batch"
    /\ inflight[1].resp.status = 200
    /\ inflight[2].resp.status = 500
    /\ inflight[1].trace.model = inflight[2].trace.model

(* C19: two /predict requests with the same record, handled at the same    *)
(* hour and month by the same loaded model, get the same status,           *)
(* fraud_probability, is_fraud and confidence.                             *)
C19_PredictTwice ==
    \A c, d \in Handled :
        (/\ inflight[c].req.route = "/predict"
         /\ inflight[d].req.route = "/predict"
         /\ inflight[c].req = inflight[d].req
         /\ inflight[c].trace.model = inflight[d].trace.model
         /\ inflight[c].at = inflight[d].at) =>
            Outcomes(inflight[c].resp) = Outcomes(inflight[d].resp)

\* the same valid record was predicted twice by a loaded model
C19_Witness ==
    /\ Handled = Clients
    /\ inflight[1].req.route = "/predict"
    /\ inflight[2].req.route = "/predict"
    /\ inflight[1].req = inflight[2].req
    /\ inflight[1].trace.model # None
    /\ inflight[1].trace.model = inflight[2].trace.model
    /\ inflight[1].at = inflight[2].at
    /\ inflight[1].resp.status = 200
    /\ inflight[2].resp.status = 200

----------------------------------------------------------------------------
(* C21: in every 200 answer to a batch each prediction has                 *)
(* response_time_ms 0, however long the record took (the wall clock may    *)
(* move on between two records), and the response_time_ms of the batch is  *)
(* the one measured duration, taken over the whole batch.                  *)
C21_ItemTimeZero ==
    (IsBatch /\ resp.status = 200) =>
        /\ \A i \in 1..Len(resp.body.predictions) :
              resp.body.predictions[i].response_time_ms = 0
        /\ resp.body.response_time_ms \in Durations

\* a batch during which the clock moved on, measured at 7 ms
C21_Witness ==
    /\ IsBatch
    /\ resp.status = 200
    /\ Len(resp.body.predictions) >= 2
    /\ trace.derived[1] # trace.derived[2]
    /\ resp.body.response_time_ms = 7
    /\ \A i \in 1..Len(resp.body.predictions) :
          resp.body.predictions[i].response_time_ms = 0

----------------------------------------------------------------------------
(* Observations of the wrapped calls *)

\* no wrapped call is at its await
Quiet == \A c \in Clients : wrapper[c].pc = "idle"

Min(a, b) == IF a < b THEN a ELSE b

\* caller c's call leaves its await in this step because the function
\* raised
RaisedIn(c) ==
    /\ wrapper[c].pc = "await"
    /\ wrapper'[c].pc = "idle"
    /\ wrapper'[c].func \in Exceptions

(* C22, as stated: once every wrapped call made has finished, with no      *)
(* reset so far, total_requests is the number of calls, total_errors the   *)
(* number of calls that raised, and the list holds min(calls that          *)
(* returned, 1000) samples, however the calls were interleaved.            *)
C22_CountersTolerant ==
    (Quiet /\ ~observed.reset) =>
        /\ metrics.total_requests = observed.calls
        /\ metrics.total_errors = observed.raised
        /\ Len(metrics.response_times) = Min(observed.returned, MaxSamples)

(* C22, amended: once every wrapped call made has finished, with no reset  *)
(* so far, total_requests is the number of calls, total_errors the number  *)
(* of calls that raised an exception derived from Exception (a call ended  *)
(* by any other exception, such as CancelledError, counts as a request     *)
(* only), and the list holds min(calls that returned, 1000) samples,       *)
(* however the calls were interleaved.                                     *)
C22_CountersExact ==
    (Quiet /\ ~observed.reset) =>
        /\ metrics.total_requests = observed.calls
        /\ metrics.total_errors = observed.caught
        /\ observed.caught <= observed.raised
        /\ Len(metrics.response_times) = Min(observed.returned, MaxSamples)

\* calls that were in flight together have all finished: one raised an
\* Exception and more than 1000 have returned
C22_Witness ==
    /\ Quiet
    /\ ~observed.reset
    /\ observed.concurrent
    /\ observed.caught = 1
    /\ observed.returned = MaxSamples + 1
    /\ metrics.total_requests = MaxSamples + 2
    /\ Len(metrics.response_times) = MaxSamples

(* C23, as stated: the list never holds more than 1000 samples and is the  *)
(* last 1000 of the samples appended, in completion order; a call that     *)
(* raises appends no sample, adds exactly 1 to total_errors and hands the  *)
(* exception the function raised to its caller.                            *)
C23_ErrorAlwaysCounted ==
    /\ [](/\ Len(metrics.response_times) <= MaxSamples
          /\ metrics.response_times = Last(observed.samples, MaxSamples))
    /\ [][\A c \in Clients : RaisedIn(c) =>
             /\ metrics'.response_times = metrics.response_times
             /\ metrics'.total_errors = metrics.total_errors + 1
             /\ wrapper'[c].caller = wrapper'[c].func]_vars

(* C23, amended: the list never holds more than 1000 samples and is the    *)
(* last 1000 of the samples appended, in completion order; a call that     *)
(* raises appends no sample and hands the exception the function raised    *)
(* to its caller; it adds exactly 1 to total_errors when the exception     *)
(* derives from Exception and leaves total_errors alone when it does not.  *)
C23_LastSamplesKept ==
    /\ [](/\ Len(metrics.response_times) <= MaxSamples
          /\ metrics.response_times = Last(observed.samples, MaxSamples))
    /\ [][\A c \in Clients : RaisedIn(c) =>
             /\ metrics'.response_times = metrics.response_times
             /\ metrics'.total_errors
                   = metrics.total_errors
                        + (IF wrapper'[c].func \in Exception THEN 1 ELSE 0)
             /\ wrapper'[c].caller = wrapper'[c].func]_vars

\* more than 1000 calls have returned, the list has been cut, and a call
\* has raised an Exception
C23_Witness ==
    /\ Len(observed.samples) > MaxSamples
    /\ Len(metrics.response_times) = MaxSamples
    /\ metrics.response_times[MaxSamples] = 7
    /\ metrics.response_times[1] = observed.samples[2]
    /\ observed.samples[1] # observed.samples[2]
    /\ observed.caught = 1
    /\ \E c \in Clients : wrapper[c].caller \in Exception

(* C24: get_metrics_summary reports error_rate = total_errors /            *)
(* total_requests whenever total_requests > 0, and 0 when total_requests   *)
(* is 0, also when every request so far has failed and the list of         *)
(* response times is empty.                                                *)
C24_ErrorRate ==
    summary # None =>
        summary.error_rate
            = IF summary.total_requests > 0
              THEN Rat(summary.total_errors, summary.total_requests)
              ELSE Rat(0, 1)

(* C25: in every reachable state of the metrics module, also when          *)
(* reset_metrics ran while a wrapped call was at its await, total_errors   *)
(* <= total_requests and the samples appended (before the cut to 1000)     *)
(* plus total_errors <= total_requests.                                    *)
C25_CountersOrdered ==
    /\ metrics.total_errors <= metrics.total_requests
    /\ Len(observed.samples) + metrics.total_errors <= metrics.total_requests

----------------------------------------------------------------------------
(* Observations of the fields the deriver does not read *)

\* the request fields no column is computed from
Unused ==
    {"account_balance", "transaction_type", "device_type", "location",
     "merchant_category", "ip_address_flag", "previous_fraudulent_activity",
     "card_type", "transaction_distance", "authentication_method",
     "is_weekend"}

\* another value inside the domain of field f
Other(f, v) ==
    IF v = valid_transaction[f]
    THEN CHOOSE w \in FieldValues(f) : FieldOk(f, w)
    ELSE valid_transaction[f]

\* record t with the fields in F changed
Vary(t, F) == [f \in DOMAIN t |-> IF f \in F THEN Other(f, t[f]) ELSE t[f]]

\* one unused field changed, or all of them
Variations == {{f} : f \in Unused} \cup {Unused}

\* daily counts that can be divided by
DailyCounts == {0, 1, 5, Float64Max}

\* what the deriver gives for record t in place of record i
DerivedFor(t, i) ==
    preprocess_transaction(t, trace.feature_names, trace.derived[i])

(* C26: a record that differs from the record POST /predict served only in *)
(* fields among account_balance, transaction_type, device_type, location,  *)
(* merchant_category, ip_address_flag, previous_fraudulent_activity,       *)
(* card_type, transaction_distance, authentication_method and is_weekend   *)
(* gets, at the same hour and month and with the same feature names, the   *)
(* same frame (or the same exception); one that differs only in            *)
(* daily_transaction_count gets a frame that differs at most in            *)
(* Failure_Rate.                                                           *)
C26_UnusedFields ==
    (IsPredict /\ Len(trace.derived) = 1) =>
        LET t == model_validate(ObjectAt(1))
        IN  /\ \A F \in Variations :
                  /\ Vary(t, F) # t
                  /\ TransactionRequest(Json(Vary(t, F)))
                  /\ DerivedFor(Vary(t, F), 1) = Preprocessed(1)
            /\ 1 \in Framed =>
                  /\ Preprocessed(1).df = Frame(1)
                  /\ \A d \in DailyCounts :
                        LET other ==
                                DerivedFor(
                                    [t EXCEPT !.daily_transaction_count = d],
                                    1).df
                        IN  /\ other.cols = Frame(1).cols
                            /\ \A c \in Range(other.cols) \ {"Failure_Rate"} :
                                  other.val[c] = Frame(1).val[c]

\* a record with a balance and a failed count is scored by a model that
\* was fitted with an Account_Balance column: the column holds 0.0, and
\* another daily count would have given another frame
C26_Witness ==
    /\ IsPredict
    /\ resp.status = 200
    /\ "Account_Balance" \in Range(trace.feature_names)
    /\ RecordAt(1).account_balance > 0
    /\ Frame(1).val["Account_Balance"] = <<0, 1>>
    /\ RecordAt(1).failed_transaction_count_7d > 0
    /\ DerivedFor([RecordAt(1) EXCEPT !.daily_transaction_count = 0], 1).df
          # Frame(1)

----------------------------------------------------------------------------
(* C27: a batch of more than 100 records is answered 422 by the request    *)
(* schema, with or without a model, and the handler body does not run for  *)
(* it; the handler is entered only with at most 100 records, so no batch   *)
(* is answered 400.                                                        *)
C27_OversizeRejectedBySchema ==
    (IsBatch /\ req.body.wellformed) =>
        /\ resp.status # 400
        /\ trace.entered => Len(Items) <= MaxItems
        /\ Len(Items) > MaxItems =>
              /\ resp.status = 422
              /\ "transactions" \in resp.body.detail
              /\ ~trace.entered
              /\ NothingScored

\* 101 valid records sent while no model is loaded
C27_Witness ==
    /\ IsBatch
    /\ AllItemsValid
    /\ Len(Items) = MaxItems + 1
    /\ trace.model = None
    /\ resp.status = 422

----------------------------------------------------------------------------
\* the feature names the lifespan resolves for artifact a
ResolvedNames(a) ==
    IF a.has_feature_names_in THEN a.feature_names_in ELSE DefaultFeatureNames

(* C28: once the lifespan has passed its startup, and still after its      *)
(* shutdown, model is the artifact loaded and feature_names the artifact's *)
(* own names when it has them, else the 17 default names; when the load    *)
(* fails the handle stays unset and no request is taken from then on.      *)
C28_StartupSetsHandle ==
    /\ [](/\ lifespan_pc \in {"serving", "stopped"} =>
                /\ model \in Artifacts
                /\ model # None
                /\ feature_names = ResolvedNames(model)
          /\ lifespan_pc = "failed" => model = None)
    /\ [][/\ lifespan_pc = "failed" =>
                /\ lifespan_pc' = "failed"
                /\ req' \in {req, NoRequest}
          /\ lifespan_pc \in {"serving", "stopped"} =>
                /\ model' = model
                /\ feature_names' = feature_names]_vars

\* an artifact without feature names was loaded, a request was answered
\* by it, and the lifespan has shut down: the handle is still there
C28_Witness ==
    /\ lifespan_pc = "stopped"
    /\ model # None
    /\ ~model.has_feature_names_in
    /\ feature_names = DefaultFeatureNames
    /\ Len(feature_names) = 17
    /\ req # NoRequest
    /\ trace.model = model

====
